---- MODULE Spec2Model ----
(***************************************************************************)
(* Essentials-QuantFinance: the loader (data_loader.py), the analysis      *)
(* helpers (analysis_tools.py) and the chart helpers (visualisation.py).   *)
(* Every function is stateless: a behaviour is one call.  The state holds  *)
(* the arguments of the call, the answers of the libraries the call        *)
(* consulted, which function was called, and what the call produced        *)
(* (a returned value, the rendered figure, or the exception that left it). *)
(***************************************************************************)
EXTENDS Integers, Naturals, Sequences, FiniteSets, TLC

VARIABLES data, tickers, days, today, call, ext, outcome

vars == <<data, tickers, days, today, call, ext, outcome>>

(***************************************************************************)
(* Values.  A cell of a table is a float: NaN (missing) or a number.       *)
(* Numbers are kept in a binary floating-point format of Precision         *)
(* significant bits (IEEE-754 round-to-nearest-even, spacing 1 at the      *)
(* bottom of the range), the reduced-width image of float64.  Only         *)
(* non-negative numbers are used.                                          *)
(***************************************************************************)
Precision == 3

NaN == [nan |-> TRUE, v |-> 0]

Num(n) == [nan |-> FALSE, v |-> n]

\* IEEE comparisons: any comparison with NaN is false.
Le(a, b) == ~a.nan /\ ~b.nan /\ a.v <= b.v

Lt(a, b) == ~a.nan /\ ~b.nan /\ a.v < b.v

RECURSIVE Pow2(_)
Pow2(e) == IF e = 0 THEN 1 ELSE 2 * Pow2(e - 1)

\* n/d (d > 0, n >= 0) rounded to the nearest integer, ties to even.
RoundHalfEven(n, d) ==
    LET f == n \div d
        r == n % d
    IN IF 2 * r < d THEN f
       ELSE IF 2 * r > d THEN f + 1
       ELSE IF f % 2 = 0 THEN f ELSE f + 1

\* The least exponent e >= 0 with n/d < 2^(Precision + e).
RECURSIVE Exponent(_, _, _)
Exponent(n, d, e) ==
    IF n < d * Pow2(Precision + e) THEN e ELSE Exponent(n, d, e + 1)

\* n/d rounded to Precision significant bits.
Round(n, d) ==
    LET e == Exponent(n, d, 0)
    IN RoundHalfEven(n, d * Pow2(e)) * Pow2(e)

(***************************************************************************)
(* Tables (pandas DataFrame): column labels in order, one series per       *)
(* column, all series of the same length.  Ticker lists: any finite        *)
(* sequence of symbols, duplicates and symbols absent from the table       *)
(* included.                                                               *)
(***************************************************************************)
\* The symbols that may label a column, and those a caller may list.
Listed == {"AAPL", "MSFT"}

Universe == Listed \cup {"TSLA"}

\* The cells of a table.
Vals == {NaN, Num(2), Num(6)}

\* The longest ticker list.
MaxTickers == 3

\* The most rows of a table given to descriptive_stats.
StatRows == 3

\* The most rows of a table given to ts_stationarity.
AdfRows == 4

SeqsUpTo(S, n) == UNION {[1..k -> S] : k \in 0..n}

TickerLists == SeqsUpTo(Universe, MaxTickers)

\* Column labels: a table labels its columns with distinct symbols.
ColumnSeqs ==
    {c \in SeqsUpTo(Listed, Cardinality(Listed)) :
        \A i, j \in 1..Len(c) : i # j => c[i] # c[j]}

\* data is a table with the given numbers of rows.
IsTableOf(rows) ==
    \E c \in ColumnSeqs : \E r \in rows :
        \E s \in [1..Len(c) -> [1..r -> Vals]] :
            data = [columns |-> c, series |-> s]

Range(s) == {s[i] : i \in 1..Len(s)}

\* t in data.columns
HasColumn(d, t) == t \in Range(d.columns)

\* data[t] for a label that is a column
Column(d, t) == d.series[CHOOSE i \in 1..Len(d.columns) : d.columns[i] = t]

\* Series.dropna()
dropna(s) == SelectSeq(s, LAMBDA x : ~x.nan)

Raise(e) == [kind |-> "raise", error |-> e]

\* days=200, the default of stock_data
DefaultDays == 200

\* Dates are proleptic Gregorian ordinals (datetime.min is day 1).
Todays == {739923}

NoCall == [kind |-> "none"]

NoExt == <<>>

(***************************************************************************)
(* analysis_tools.descriptive_stats                                        *)
(***************************************************************************)

\* Left-to-right float64 accumulation of the non-missing values
\* (DataFrame.describe -> nanmean: sum of the values, skipping NaN).
RECURSIVE FlSum(_, _)
FlSum(s, acc) ==
    IF s = <<>> THEN acc ELSE FlSum(Tail(s), Round(acc + Head(s).v, 1))

SeqMin(s) == CHOOSE x \in Range(s) : \A y \in Range(s) : x.v <= y.v

SeqMax(s) == CHOOSE x \in Range(s) : \A y \in Range(s) : y.v <= x.v

\* Mutant: the mean divides by the number of rows, missing ones included.
MeanOverAllRows(s) ==
    LET x == dropna(s)
    IN IF x = <<>> THEN NaN ELSE Num(Round(FlSum(x, 0), Len(s)))

\* One column of DataFrame.describe(): count, mean, min and max over the
\* non-missing values; NaN when there is none.  (std, the quartiles,
\* skewness and kurtosis are further cells of the same row; no property
\* below reads them.)
MeanOf(s) ==
    LET x == dropna(s)
    IN IF x = <<>> THEN NaN ELSE Num(Round(FlSum(x, 0), Len(x)))

MinOf(s) ==
    LET x == dropna(s)
    IN IF x = <<>> THEN NaN ELSE SeqMin(x)

MaxOf(s) ==
    LET x == dropna(s)
    IN IF x = <<>> THEN NaN ELSE SeqMax(x)

describe(s) ==
    [count |-> Len(dropna(s)), mean |-> MeanOf(s), min |-> MinOf(s), max |-> MaxOf(s)]

\* Mutant: the columns that are listed, instead of the listed symbols that
\* are columns.
listed_columns(d, t) == SelectSeq(d.columns, LAMBDA x : x \in Range(t))

\* [t for t in tickers if t in data.columns]
valid_tickers(d, t) == SelectSeq(t, LAMBDA x : HasColumn(d, x))

\* data[valid_tickers].describe().T: one row per selected label, in the
\* order of the selection, a label selected twice giving two rows.
StatsRows(d, v) ==
    [i \in 1..Len(v) |->
        LET r == describe(Column(d, v[i]))
        IN [ticker |-> v[i], count |-> r.count, mean |-> r.mean,
            min |-> r.min, max |-> r.max]]

\* Mutant: the safety check is missing.
descriptive_stats_unchecked(d, t) ==
    [kind |-> "return", rows |-> StatsRows(d, valid_tickers(d, t))]

descriptive_stats(d, t) ==
    LET v == valid_tickers(d, t)
    IN IF v = <<>>
       THEN Raise("ValueError")
       ELSE [kind |-> "return", rows |-> StatsRows(d, v)]

DescriptiveStats ==
    /\ call = "none"
    /\ call' = "descriptive_stats"
    /\ outcome' = descriptive_stats(data, tickers)
    /\ UNCHANGED <<data, tickers, days, today, ext>>

InitStats ==
    /\ IsTableOf(1..StatRows)
    /\ tickers \in TickerLists
    /\ days = DefaultDays
    /\ today \in Todays
    /\ call = "none"
    /\ ext = NoExt
    /\ outcome = NoCall

SpecStats == InitStats /\ [][DescriptiveStats]_vars

(***************************************************************************)
(* Properties of descriptive_stats                                         *)
(***************************************************************************)
StatsCalled == call = "descriptive_stats"

Overlap == Range(tickers) \cap Range(data.columns)

RECURSIVE Occurrences(_, _)
Occurrences(s, x) ==
    IF s = <<>> THEN 0
    ELSE (IF Head(s) = x THEN 1 ELSE 0) + Occurrences(Tail(s), x)

RowsFor(t) == Cardinality({i \in 1..Len(outcome.rows) : outcome.rows[i].ticker = t})

RECURSIVE ExactSum(_)
ExactSum(s) == IF s = <<>> THEN 0 ELSE Head(s).v + ExactSum(Tail(s))

\* The float64 sum of the column's non-missing values carries no rounding error.
SumExact(s) == FlSum(dropna(s), 0) = ExactSum(dropna(s))

\* C1: when no listed symbol (the empty list included) is a column of the
\* table, descriptive_stats raises ValueError and returns no result.
C1_NoOverlapRaises ==
    (StatsCalled /\ Overlap = {}) => outcome = Raise("ValueError")

C1_Witness ==
    /\ StatsCalled
    /\ tickers # <<>>
    /\ data.columns # <<>>
    /\ Overlap = {}
    /\ outcome.kind = "raise"

\* C2 as stated: with a non-empty overlap the call returns and the result
\* holds exactly one row per distinct ticker of the overlap, none for any
\* other symbol.
C2_OneRowPerDistinctTicker ==
    (StatsCalled /\ Overlap # {}) =>
        /\ outcome.kind = "return"
        /\ \A t \in Universe : RowsFor(t) = IF t \in Overlap THEN 1 ELSE 0

\* C2 amended: with a non-empty overlap the call returns and the result
\* holds one row per occurrence in the list of a ticker that is a column (in
\* list order): every ticker of the overlap has a row, no other symbol has
\* one, and a ticker has as many rows as the list names it.
C2_OneRowPerListedOccurrence ==
    (StatsCalled /\ Overlap # {}) =>
        /\ outcome.kind = "return"
        /\ \A t \in Universe :
              RowsFor(t) = IF t \in Overlap THEN Occurrences(tickers, t) ELSE 0
        /\ \A i, j \in 1..Len(outcome.rows) :
              i < j => \E k, l \in 1..Len(tickers) :
                          /\ k < l
                          /\ tickers[k] = outcome.rows[i].ticker
                          /\ tickers[l] = outcome.rows[j].ticker

C2_Witness ==
    /\ StatsCalled
    /\ outcome.kind = "return"
    /\ \E t \in Overlap : Occurrences(tickers, t) = 2 /\ RowsFor(t) = 2
    /\ \E t \in Range(tickers) : t \notin Overlap

\* C7 as stated: every row of the result satisfies min <= mean <= max.
C7_MinMeanMax ==
    (StatsCalled /\ outcome.kind = "return") =>
        \A i \in 1..Len(outcome.rows) :
            /\ Le(outcome.rows[i].min, outcome.rows[i].mean)
            /\ Le(outcome.rows[i].mean, outcome.rows[i].max)

\* C7 amended: every row whose column has a non-missing value satisfies
\* min <= max, and min <= mean <= max whenever the float sum of the column
\* is exact; the row of a column without any non-missing value holds NaN
\* for mean, min and max.
C7_MinMeanMaxWhenExact ==
    (StatsCalled /\ outcome.kind = "return") =>
        \A i \in 1..Len(outcome.rows) :
            LET r == outcome.rows[i]
                col == Column(data, r.ticker)
            IN IF \E k \in 1..Len(col) : ~col[k].nan
               THEN /\ Le(r.min, r.max)
                    /\ SumExact(col) => Le(r.min, r.mean) /\ Le(r.mean, r.max)
               ELSE r.mean.nan /\ r.min.nan /\ r.max.nan

C7_Witness ==
    /\ StatsCalled
    /\ outcome.kind = "return"
    /\ \E i \in 1..Len(outcome.rows) :
          LET r == outcome.rows[i]
              col == Column(data, r.ticker)
          IN /\ \E k \in 1..Len(col) : col[k].nan
             /\ SumExact(col)
             /\ Lt(r.min, r.mean)
             /\ Lt(r.mean, r.max)

(***************************************************************************)
(* analysis_tools.ts_stationarity                                          *)
(***************************************************************************)

\* statsmodels' adfuller(x) with its defaults (regression 'c', maxlag None)
\* needs len(x) // 2 - 2 >= 0 observations and raises ValueError below that.
AdfMinObs == 4

\* The significance threshold 0.05, in thousandths like the p-values below.
Alpha == 50

AdfError == [raised |-> TRUE, stat |-> 0, p |-> NaN]

\* (statistic, p-value) pairs adfuller may return: p-values in thousandths,
\* on both sides of the threshold and on it, and NaN.
AdfResults ==
    {[raised |-> FALSE, stat |-> -4, p |-> Num(49)],
     [raised |-> FALSE, stat |-> -3, p |-> Num(50)],
     [raised |-> FALSE, stat |-> -2, p |-> Num(51)],
     [raised |-> FALSE, stat |-> -1, p |-> NaN]}

\* What adfuller(x) may answer.  Fewer than AdfMinObs observations (none at
\* all included): it raises.  A constant series: it raises or returns a
\* degenerate result, depending on the statsmodels release.  Otherwise it
\* returns a result.
adfuller(x) ==
    IF Len(x) < AdfMinObs THEN {AdfError}
    ELSE IF Cardinality(Range(x)) = 1 THEN AdfResults \cup {AdfError}
    ELSE AdfResults

\* Mutant: a p-value equal to the threshold counts as stationary.
StationaryInclusive(p) == IF Le(p, Num(Alpha)) THEN "Yes" ELSE "No"

\* 'Yes' if adf[1] < 0.05 else 'No'
Stationary(p) == IF Lt(p, Num(Alpha)) THEN "Yes" ELSE "No"

AdfRow(stock, a) ==
    [Ticker |-> stock, ADFStatistic |-> a.stat, pvalue |-> a.p,
     Stationary |-> Stationary(a.p)]

\* Mutant: the rows are appended in reverse column order.
ts_stationarity_reversed(d, adf) ==
    IF \E i \in 1..Len(d.columns) : adf[i].raised
    THEN Raise("ValueError")
    ELSE [kind |-> "return",
          rows |-> [i \in 1..Len(d.columns) |->
                       AdfRow(d.columns[Len(d.columns) + 1 - i],
                              adf[Len(d.columns) + 1 - i])]]

\* for stock in data: adf = adfuller(data[stock].dropna()); append a row.
\* adf[i] is adfuller's answer for the i-th column; the first answer that is
\* an exception leaves the function uncaught.
ts_stationarity(d, adf) ==
    IF \E i \in 1..Len(d.columns) : adf[i].raised
    THEN Raise("ValueError")
    ELSE [kind |-> "return",
          rows |-> [i \in 1..Len(d.columns) |-> AdfRow(d.columns[i], adf[i])]]

\* The answers the loop received: those up to the first exception.
Consulted(adf) ==
    LET stop == {i \in 1..Len(adf) : adf[i].raised}
        last == IF stop = {} THEN Len(adf)
                ELSE CHOOSE i \in stop : \A j \in stop : i <= j
    IN [i \in 1..last |-> adf[i]]

TsStationarity ==
    /\ call = "none"
    /\ \E adf \in [1..Len(data.columns) -> AdfResults \cup {AdfError}] :
          /\ \A i \in 1..Len(data.columns) :
                adf[i] \in adfuller(dropna(Column(data, data.columns[i])))
          /\ outcome' = ts_stationarity(data, adf)
          /\ ext' = Consulted(adf)
    /\ call' = "ts_stationarity"
    /\ UNCHANGED <<data, tickers, days, today>>

InitAdf ==
    /\ IsTableOf(1..AdfRows)
    /\ tickers = <<>>
    /\ days = DefaultDays
    /\ today \in Todays
    /\ call = "none"
    /\ ext = NoExt
    /\ outcome = NoCall

SpecAdf == InitAdf /\ [][TsStationarity]_vars

(***************************************************************************)
(* Properties of ts_stationarity                                           *)
(***************************************************************************)
AdfCalled == call = "ts_stationarity"

\* The columns that are entirely missing or too short for the test.
Degenerate ==
    {t \in Range(data.columns) : Len(dropna(Column(data, t))) < AdfMinObs}

\* The tickers the call identifies as failed.  An exception that left the
\* call is adfuller's own and names no ticker.
ReportedFailed ==
    IF outcome.kind = "return"
    THEN {outcome.rows[i].Ticker :
            i \in {j \in 1..Len(outcome.rows) :
                     outcome.rows[j].Stationary \notin {"Yes", "No"}}}
    ELSE {}

\* C4: the returned result has one row per column of the table, the i-th
\* row carrying the label of the i-th column.
C4_OneRowPerColumnInOrder ==
    (AdfCalled /\ outcome.kind = "return") =>
        /\ Len(outcome.rows) = Len(data.columns)
        /\ \A i \in 1..Len(outcome.rows) : outcome.rows[i].Ticker = data.columns[i]

C4_Witness ==
    /\ AdfCalled
    /\ outcome.kind = "return"
    /\ data.columns = <<"MSFT", "AAPL">>
    /\ Len(outcome.rows) = 2

\* C5: in every row the label is 'Yes' exactly when the row's p-value is
\* strictly below 0.05 and 'No' otherwise (a p-value equal to 0.05
\* included), the p-value of the row being the one adfuller answered for
\* that column.
C5_LabelFromPValue ==
    (AdfCalled /\ outcome.kind = "return") =>
        \A i \in 1..Len(outcome.rows) :
            LET r == outcome.rows[i]
            IN /\ r.pvalue = ext[i].p
               /\ r.Stationary \in {"Yes", "No"}
               /\ r.Stationary = "Yes" <=> (~r.pvalue.nan /\ r.pvalue.v < Alpha)

C5_Witness ==
    /\ AdfCalled
    /\ outcome.kind = "return"
    /\ \E i, j \in 1..Len(outcome.rows) :
          /\ outcome.rows[i].pvalue = Num(Alpha)
          /\ outcome.rows[i].Stationary = "No"
          /\ outcome.rows[j].pvalue = Num(Alpha - 1)
          /\ outcome.rows[j].Stationary = "Yes"

\* C6: a table with a column that is entirely missing or too short makes the
\* call report a failure for that ticker, without a statistic / p-value /
\* classification row for it.
C6_DegenerateColumnReported ==
    (AdfCalled /\ Degenerate # {}) =>
        /\ Degenerate \subseteq ReportedFailed
        /\ outcome.kind = "return" =>
              \A i \in 1..Len(outcome.rows) :
                  outcome.rows[i].Ticker \in Degenerate =>
                      outcome.rows[i].Stationary \notin {"Yes", "No"}

(***************************************************************************)
(* data_loader.stock_data                                                  *)
(***************************************************************************)

DaysArgs == {0, 1, DefaultDays, 739922, 739923, 800000}

\* The classes derived from Exception among those raised here
\* (KeyboardInterrupt derives from BaseException only).
Exceptions == {"ConnectionError", "KeyError", "YFException", "AttributeError"}

\* What yf.download(tickers, start=start, end=end) may do: return a frame
\* whose index and column levels are named, return something that is no
\* frame (None), or raise: the network is down, a symbol is invalid, the
\* provider reports an error; or the user interrupts the request.
ProviderAnswers(t, start, end) ==
    {[kind |-> "frame", symbols |-> t, start |-> start, end |-> end,
      index_name |-> "Date", columns_name |-> "Ticker"],
     [kind |-> "object", error |-> "AttributeError"],
     [kind |-> "raise", error |-> "ConnectionError"],
     [kind |-> "raise", error |-> "KeyError"],
     [kind |-> "raise", error |-> "YFException"],
     [kind |-> "raise", error |-> "KeyboardInterrupt"]}

\* The value returned for a failed download.
None == [type |-> "NoneType"]

\* data.index.name = None; data.columns.name = None
StripNames(answer) ==
    [type |-> "DataFrame", symbols |-> answer.symbols, start |-> answer.start,
     end |-> answer.end, index_name |-> "None", columns_name |-> "None"]

\* except Exception as E: print(...); return None
Handler(e) == [kind |-> "return", value |-> None, printed |-> e]

\* Mutant: the handler catches connection errors only.
TryDownloadNarrow(answer) ==
    IF answer.kind = "frame"
    THEN [kind |-> "return", value |-> StripNames(answer), printed |-> "None"]
    ELSE IF answer.error = "ConnectionError"
    THEN Handler(answer.error)
    ELSE Raise(answer.error)

\* The try block: the request, the two assignments on its response, the
\* return; any Exception raised by one of them is caught.
TryDownload(answer) ==
    IF answer.kind = "frame"
    THEN [kind |-> "return", value |-> StripNames(answer), printed |-> "None"]
    ELSE IF answer.error \in Exceptions
    THEN Handler(answer.error)
    ELSE Raise(answer.error)

\* end = datetime.today(); start = end - timedelta(days=days): a start
\* before datetime.min is an OverflowError, raised outside the try block.
DateRangeOverflows(n, now) == now - n < 1

\* stock_data(tickers, days) called on day `now`, the provider answering
\* `answer` if the request is reached.
stock_data(t, n, now, answer) ==
    IF DateRangeOverflows(n, now) THEN Raise("OverflowError") ELSE TryDownload(answer)

StockData ==
    /\ call = "none"
    /\ call' = "stock_data"
    /\ \E answer \in ProviderAnswers(tickers, today - days, today) :
          /\ outcome' = stock_data(tickers, days, today, answer)
          /\ ext' = IF DateRangeOverflows(days, today) THEN NoExt ELSE <<answer>>
    /\ UNCHANGED <<data, tickers, days, today>>

NoTable == [columns |-> <<>>, series |-> <<>>]

InitLoader ==
    /\ data = NoTable
    /\ tickers \in TickerLists
    /\ days \in DaysArgs
    /\ today \in Todays
    /\ call = "none"
    /\ ext = NoExt
    /\ outcome = NoCall

SpecLoader == InitLoader /\ [][StockData]_vars

(***************************************************************************)
(* Properties of stock_data                                                *)
(***************************************************************************)
LoaderCalled == call = "stock_data"

\* The request was made and it, or the handling of its response, failed
\* with an error (network, invalid symbol, provider error, a response that
\* is no frame).
DownloadFailed ==
    ext # NoExt /\ ext[1].kind # "frame" /\ ext[1].error \in Exceptions

\* C3: when the provider request or the handling of its response fails,
\* stock_data propagates no exception and returns None.
C3_FailureReturnsNone ==
    (LoaderCalled /\ DownloadFailed) =>
        outcome.kind = "return" /\ outcome.value.type = "NoneType"

C3_Witness ==
    /\ LoaderCalled
    /\ ext # NoExt
    /\ ext[1].kind = "raise"
    /\ ext[1].error = "KeyError"
    /\ days = DefaultDays
    /\ outcome.kind = "return"
    /\ outcome.value.type = "NoneType"
    /\ outcome.printed = "KeyError"

(***************************************************************************)
(* visualisation: tracking_plot, plot_histograms, plot_boxplots,           *)
(* ts_decomposition, acf_pacf.  The outcome of a call that returns is the  *)
(* figure it rendered.                                                     *)
(***************************************************************************)
\* The most rows of a table given to a chart helper.
PlotRows == 1

\* cols = 3
GridCols == 3

\* period=30
Period == 30

\* lags=25
Lags == 25

\* plt.subplots(nrows, ncols) with squeeze=True: a grid has to have at least
\* one row; the array of axes is two-dimensional only when there is more
\* than one row and more than one column.
subplots(nrows, ncols) ==
    IF nrows < 1 THEN [ok |-> FALSE, ndim |-> 0, nrows |-> nrows, ncols |-> ncols]
    ELSE [ok |-> TRUE,
          ndim |-> IF nrows > 1 /\ ncols > 1 THEN 2
                   ELSE IF nrows > 1 \/ ncols > 1 THEN 1 ELSE 0,
          nrows |-> nrows, ncols |-> ncols]

\* axes[i, k] (i counted from 1): the array has two dimensions and a row i.
GridRowExists(axes, i) == axes.ndim = 2 /\ i <= axes.nrows

\* The first element of a set of indices, 0 when there is none.
First(S) == IF S = {} THEN 0 ELSE CHOOSE i \in S : \A j \in S : i <= j

\* for t in tickers: plt.plot(data.index, data[t], label=t)
tracking_plot(d, t) ==
    IF \E i \in 1..Len(t) : ~HasColumn(d, t[i])
    THEN Raise("KeyError")
    ELSE [kind |-> "return", lines |-> t]

\* Axes.hist(x): a series that holds values, all of them NaN, has no finite
\* range to bin and numpy's histogram raises ValueError.
HistRejects(x) == x # <<>> /\ dropna(x) = <<>>

\* The cell of the i-th listed ticker in plot_histograms.
HistCell(d, ticker) ==
    IF HasColumn(d, ticker)
    THEN [state |-> "hist", title |-> ticker]
    ELSE [state |-> "off", title |-> ""]

plot_histograms(d, t) ==
    LET n == Len(t)
        rows == (n + 2) \div 3
        axes == subplots(rows, GridCols)
    IN IF ~axes.ok THEN Raise("ValueError")
       ELSE IF \E i \in 1..n : HasColumn(d, t[i]) /\ HistRejects(Column(d, t[i]))
       THEN Raise("ValueError")
       ELSE [kind |-> "return",
             cells |-> [j \in 1..(axes.nrows * axes.ncols) |->
                          IF j <= n THEN HistCell(d, t[j])
                          ELSE [state |-> "off", title |-> ""]]]

\* The cell of the i-th listed ticker in plot_boxplots.
BoxCell(d, ticker) ==
    IF HasColumn(d, ticker)
    THEN [state |-> "boxplot", title |-> ticker]
    ELSE [state |-> "off", title |-> ""]

\* Mutant: the cells after the last listed ticker are left as created.
plot_boxplots_unpadded(d, t) ==
    LET n == Len(t)
        rows == (n + 2) \div 3
        axes == subplots(rows, GridCols)
    IN IF ~axes.ok THEN Raise("ValueError")
       ELSE [kind |-> "return",
             cells |-> [j \in 1..(axes.nrows * axes.ncols) |->
                          IF j <= n THEN BoxCell(d, t[j])
                          ELSE [state |-> "empty", title |-> ""]]]

plot_boxplots(d, t) ==
    LET n == Len(t)
        rows == (n + 2) \div 3
        axes == subplots(rows, GridCols)
    IN IF ~axes.ok THEN Raise("ValueError")
       ELSE [kind |-> "return",
             cells |-> [j \in 1..(axes.nrows * axes.ncols) |->
                          IF j <= n THEN BoxCell(d, t[j])
                          ELSE [state |-> "off", title |-> ""]]]

\* ts_decomposition: a grid of len(tickers) rows; for the i-th column of the
\* table seasonal_decompose(...) first (lib[i] tells whether it accepts the
\* series), then axes[i, 0], axes[i, 1], axes[i, 2].
ts_decomposition(d, t, lib) ==
    LET axes == subplots(Len(t), 3)
        N == Len(d.columns)
        stop == First({i \in 1..N : lib[i] = "raise" \/ ~GridRowExists(axes, i)})
    IN IF ~axes.ok THEN Raise("ValueError")
       ELSE IF stop = 0
       THEN [kind |-> "return",
             charts |-> [i \in 1..N |->
                           [row |-> i, ticker |-> d.columns[i], period |-> Period]]]
       ELSE IF lib[stop] = "raise" THEN Raise("ValueError")
       ELSE Raise("IndexError")

\* acf_pacf: a grid of len(tickers) rows; for the i-th column of the table
\* axes[i, 0] is taken first, then plot_acf, axes[i, 1] and plot_pacf run
\* (lib[i] tells whether they accept the series).
acf_pacf(d, t, lib) ==
    LET axes == subplots(Len(t), 2)
        N == Len(d.columns)
        stop == First({i \in 1..N : lib[i] = "raise" \/ ~GridRowExists(axes, i)})
    IN IF ~axes.ok THEN Raise("ValueError")
       ELSE IF stop = 0
       THEN [kind |-> "return",
             charts |-> [i \in 1..N |->
                           [row |-> i, ticker |-> d.columns[i], lags |-> Lags]]]
       ELSE IF ~GridRowExists(axes, stop) THEN Raise("IndexError")
       ELSE Raise("ValueError")

TrackingPlot ==
    /\ call = "none"
    /\ call' = "tracking_plot"
    /\ outcome' = tracking_plot(data, tickers)
    /\ UNCHANGED <<data, tickers, days, today, ext>>

PlotHistograms ==
    /\ call = "none"
    /\ call' = "plot_histograms"
    /\ outcome' = plot_histograms(data, tickers)
    /\ UNCHANGED <<data, tickers, days, today, ext>>

PlotBoxplots ==
    /\ call = "none"
    /\ call' = "plot_boxplots"
    /\ outcome' = plot_boxplots(data, tickers)
    /\ UNCHANGED <<data, tickers, days, today, ext>>

\* The verdicts of the statistical routine on the columns, one per column.
LibVerdicts(d) == [1..Len(d.columns) -> {"ok", "raise"}]

\* The verdicts ts_decomposition received before it ended: none when no
\* grid could be created, else those up to the column at which it stopped
\* (the routine runs before the grid is indexed).
ReceivedDecomposition(d, t, lib) ==
    LET axes == subplots(Len(t), 3)
        stop == First({i \in 1..Len(lib) : lib[i] = "raise" \/ ~GridRowExists(axes, i)})
    IN IF ~axes.ok THEN <<>>
       ELSE [i \in 1..(IF stop = 0 THEN Len(lib) ELSE stop) |-> lib[i]]

\* The verdicts acf_pacf received before it ended (the grid is indexed
\* before the routine runs).
ReceivedAcf(d, t, lib) ==
    LET axes == subplots(Len(t), 2)
        stop == First({i \in 1..Len(lib) : lib[i] = "raise" \/ ~GridRowExists(axes, i)})
        last == IF stop = 0 THEN Len(lib)
                ELSE IF GridRowExists(axes, stop) THEN stop ELSE stop - 1
    IN IF ~axes.ok THEN <<>> ELSE [i \in 1..last |-> lib[i]]

TsDecomposition ==
    /\ call = "none"
    /\ \E lib \in LibVerdicts(data) :
          /\ outcome' = ts_decomposition(data, tickers, lib)
          /\ ext' = ReceivedDecomposition(data, tickers, lib)
    /\ call' = "ts_decomposition"
    /\ UNCHANGED <<data, tickers, days, today>>

AcfPacf ==
    /\ call = "none"
    /\ \E lib \in LibVerdicts(data) :
          /\ outcome' = acf_pacf(data, tickers, lib)
          /\ ext' = ReceivedAcf(data, tickers, lib)
    /\ call' = "acf_pacf"
    /\ UNCHANGED <<data, tickers, days, today>>

InitPlot ==
    /\ IsTableOf(1..PlotRows)
    /\ tickers \in TickerLists
    /\ days = DefaultDays
    /\ today \in Todays
    /\ call = "none"
    /\ ext = NoExt
    /\ outcome = NoCall

NextPlot ==
    \/ TrackingPlot
    \/ PlotHistograms
    \/ PlotBoxplots
    \/ TsDecomposition
    \/ AcfPacf

SpecPlot == InitPlot /\ [][NextPlot]_vars

(***************************************************************************)
(* Properties of the chart helpers                                         *)
(***************************************************************************)
GridCalled == call \in {"plot_histograms", "plot_boxplots"}

Drawn(cell) == cell.state \in {"hist", "boxplot"}

\* The grid has a cell for every listed ticker, the i-th cell is the i-th
\* ticker's and is drawn exactly when the ticker is a column, and every
\* other cell is disabled.
GridFollowsTickers ==
    /\ outcome.kind = "return"
    /\ Len(outcome.cells) >= Len(tickers)
    /\ \A i \in 1..Len(tickers) :
          /\ Drawn(outcome.cells[i]) <=> HasColumn(data, tickers[i])
          /\ Drawn(outcome.cells[i]) => outcome.cells[i].title = tickers[i]
          /\ ~HasColumn(data, tickers[i]) => outcome.cells[i].state = "off"
    /\ \A j \in (Len(tickers) + 1)..Len(outcome.cells) :
          outcome.cells[j].state = "off"

\* A listed column that holds rows and no value: Axes.hist cannot bin it.
ListedColumnAllMissing ==
    \E i \in 1..Len(tickers) :
        HasColumn(data, tickers[i]) /\ HistRejects(Column(data, tickers[i]))

\* C8 as stated: for every table and every ticker list the grid follows the
\* ticker list and no error is raised.
C8_GridFollowsEveryList == GridCalled => GridFollowsTickers

\* C8 amended: for every table and every non-empty ticker list the grid
\* follows the ticker list, unless plot_histograms is given a listed column
\* that is entirely missing; and no call raises because a listed symbol is
\* absent (no KeyError): the only errors are the ValueError of an empty
\* ticker list (a grid of zero rows) and of such a column.
C8_GridFollowsNonEmptyList ==
    GridCalled =>
        /\ (tickers # <<>> /\ ~(call = "plot_histograms" /\ ListedColumnAllMissing))
              => GridFollowsTickers
        /\ outcome.kind = "raise" =>
              /\ outcome.error = "ValueError"
              /\ tickers = <<>> \/ (call = "plot_histograms" /\ ListedColumnAllMissing)

C8_Witness ==
    /\ call = "plot_boxplots"
    /\ outcome.kind = "return"
    /\ Len(tickers) = 2
    /\ ~HasColumn(data, tickers[1])
    /\ HasColumn(data, tickers[2])
    /\ outcome.cells[1].state = "off"
    /\ outcome.cells[2].state = "boxplot"
    /\ outcome.cells[3].state = "off"

\* C9: in ts_decomposition and acf_pacf every column index addresses an
\* existing row of the grid the call created (no out-of-range or
\* wrongly-shaped access), whatever the number of columns and the length of
\* the ticker list, a single ticker included; a call that returns has drawn
\* one row of sub-charts per column.
C9_EveryColumnHasItsGridRow ==
    call \in {"ts_decomposition", "acf_pacf"} =>
        /\ outcome # Raise("IndexError")
        /\ outcome.kind = "return" => Len(outcome.charts) = Len(data.columns)

\* C10: tracking_plot skips a listed symbol that is no column of the table,
\* plots the others and does not fail.
C10_AbsentSymbolSkipped ==
    (call = "tracking_plot" /\ \E i \in 1..Len(tickers) : ~HasColumn(data, tickers[i])) =>
        /\ outcome.kind = "return"
        /\ outcome.lines = SelectSeq(tickers, LAMBDA x : HasColumn(data, x))

(***************************************************************************)
(* The whole program: any one of the functions, called once.               *)
(***************************************************************************)
Init == InitStats \/ InitAdf \/ InitLoader \/ InitPlot

Next == DescriptiveStats \/ TsStationarity \/ StockData \/ NextPlot

Spec == Init /\ [][Next]_vars

====
